---- MODULE Spec2Model ----
(***************************************************************************)
(* Grid phase and bridge detection of scripts/analyze-track-v2.py.         *)
(*                                                                         *)
(* Beat indices, quarter indices and tact indices are 0-based as in the    *)
(* Python source; a Python list l is a TLA+ sequence s with l[i] = s[i+1]. *)
(* Energies are floats in the source.  They are integers here; every       *)
(* comparison of the source is done in exact arithmetic by cross           *)
(* multiplication (a/b < t  becomes  a*100 < t_pct*b).  Confidence scores  *)
(* are integers in units of 1/ScoreUnit.                                   *)
(***************************************************************************)
EXTENDS Integers, Sequences, FiniteSets, TLC

\* ------------------------------------------------------------------ bounds
\* Number of 8-beat cycles of the long input series.
LongCycles == 9
\* Short input series have 0..MaxShort beats.
MaxShort == 17
\* Largest base energy and accent of the 256-beat scenario series.
MaxLevel == 2
MaxSlot == 3
PadSlots == 12

\* ------------------------------------------------- configuration (defaults)
energy_threshold_reduction_pct == 30
initial_quarters_count == 8
indicator_window == 4
bridge_dominance_threshold_pct == 3
popsa_peak_threshold_pct == 70
perc_start_threshold_pct == 20
QUARTERS_PER_SMALL_SQUARE == 4
QUARTERS_PER_SQUARE == 8
\* analyze_v2 refuses a track with fewer beats than this.
MIN_BEATS == 16
\* Scores are integers in units of 1/ScoreUnit; 0.001 is ScoreUnit \div 1000.
ScoreUnit == 2 * 1000
\* max(r1, r5, 0.001): energies are scaled by EnergyScale where the floor is used.
EnergyScale == 10 * 100
\* The scenario series of the testable properties: 256 beats, the anomalous
\* square on beats 96..127.
ScenarioBeats == 8 * 32
ScenarioSquareStart == 3 * 32

\* ----------------------------------------------------------------- helpers
\* A variant that always takes its second argument.
Min2_second(a, b) == b

Min2(a, b) == IF a <= b THEN a ELSE b
Max2(a, b) == IF a >= b THEN a ELSE b
Abs(a) == IF a >= 0 THEN a ELSE -a
\* Python's a % 8 for any integer a (result in 0..7).
Mod8(a) == ((a % 8) + 8) % 8

\* sum(f[i] for i in range(a, b)) over a sequence f indexed from 0.
RECURSIVE SumRange(_, _, _)
SumRange(f, a, b) ==
  IF a >= b THEN 0
  ELSE IF b = a + 1 THEN f[a + 1]
  ELSE SumRange(f, a, (a + b) \div 2) + SumRange(f, (a + b) \div 2, b)

Energies(bs) == [i \in 1..Len(bs) |-> bs[i].energy]
Percs(bs) == [i \in 1..Len(bs) |-> bs[i].perceptual_energy]

\* ---------------------------------------------------------------- Phase 0
\* position_scores[pos]: sum and count of the scores of the beats i with
\* i % 8 = pos.
RECURSIVE ScoreSum(_, _)
ScoreSum(bs, i) ==
  IF i >= Len(bs) THEN 0 ELSE bs[i + 1].madmom_score + ScoreSum(bs, i + 8)

ScoreCount(bs, pos) == IF Len(bs) > pos THEN (Len(bs) - pos + 7) \div 8 ELSE 0

\* avg_scores[pos] = mean(position_scores[pos]) or 0.0, as a fraction
\* <<numerator, denominator>> with a positive denominator.
avg_scores(bs) ==
  [p \in 0..7 |->
     IF ScoreCount(bs, p) = 0 THEN <<0, 1>>
     ELSE <<ScoreSum(bs, p), ScoreCount(bs, p)>>]

FracLt(a, b) == a[1] * b[2] < b[1] * a[2]
FracEq(a, b) == a[1] * b[2] = b[1] * a[2]
FracMax(a, b) == IF FracLt(a, b) THEN b ELSE a

\* The first element of sorted(S, key=avg, reverse=True): Python's sort is
\* stable, so among equal scores the lower position comes first.
TopOf(avg, S) ==
  CHOOSE p \in S :
    \A q \in S : FracLt(avg[q], avg[p]) \/ (FracEq(avg[q], avg[p]) /\ q >= p)

\* The neighbourhood test of line 152: abs((p - expected) % 8) <= 1.  Python's
\* % is never negative, so the residues accepted are expected and expected+1.
NearExpected(p, expected) == Mod8(p - expected) <= 1

\* Lines 146-159: the two peak rows, ordered.
PeakPair(avg) ==
  LET first == TopOf(avg, 0..7)
      second == TopOf(avg, (0..7) \ {first})
      expected == Mod8(first + 4)
      candidates == {p \in 0..7 : NearExpected(p, expected)}
      p2 == IF ~NearExpected(second, expected) /\ candidates # {}
            THEN TopOf(avg, candidates) ELSE second
  IN  IF first > p2 THEN <<p2, first>> ELSE <<first, p2>>

\* ref_score = max(score_peak1, score_peak2, 0.001); 0.001 is the fraction
\* <<ScoreUnit \div 1000, 1>> in units of 1/ScoreUnit.
RefScore(avg, p1, p2) ==
  FracMax(FracMax(avg[p1], avg[p2]), <<ScoreUnit \div 1000, 1>>)

\* A variant that asks a midpoint to reach the reference score itself.
MidIsPeak_full_ref(avg, mid, ref) == avg[mid][1] * ref[2] >= ref[1] * avg[mid][2]

\* ratio_mid >= threshold, with ratio_mid = avg[mid] / ref_score.
MidIsPeak(avg, mid, ref) ==
  avg[mid][1] * ref[2] * 100 >= popsa_peak_threshold_pct * ref[1] * avg[mid][2]

classify_peaks(bs) ==
  LET avg == avg_scores(bs)
      pp == PeakPair(avg)
      mid1 == Mod8(pp[1] + 2)
      mid2 == Mod8(pp[2] + 2)
      ref == RefScore(avg, pp[1], pp[2])
  IN  [peak_count |-> IF MidIsPeak(avg, mid1, ref) /\ MidIsPeak(avg, mid2, ref)
                      THEN 4 ELSE 2,
       peak1 |-> pp[1], peak2 |-> pp[2]]

\* ---------------------------------------------------------------- Phase 1
\* The beats that start a tact of a strong row: range(len(beats) - 3)
\* filtered by i % 8 in {peak1, peak2}, in increasing order.  tact_sum is the
\* sum of perceptual_energy over the tact's 4 beats.
TactRows(percs, p1, p2) ==
  LET IsStrong(i) == (i % 8) = p1 \/ (i % 8) = p2
      starts == SelectSeq([k \in 1..(Len(percs) - 3) |-> k - 1], IsStrong)
  IN  [k \in 1..Len(starts) |->
         [row_position |-> starts[k] % 8, beat |-> starts[k],
          tact_sum |-> percs[starts[k] + 1] + percs[starts[k] + 2]
                       + percs[starts[k] + 3] + percs[starts[k] + 4]]]

build_strong_rows_tact_table(bs, p1, p2) ==
  IF Len(bs) < 4 THEN <<>> ELSE TactRows(Percs(bs), p1, p2)

\* tact_avg > mean_perc / (1 - threshold), with tact_avg = tact_sum / 4 and
\* mean_perc = total / n.
TactIsStrong(tact_sum, total, n) ==
  tact_sum * n * (100 - perc_start_threshold_pct) > 4 * total * 100

\* The beat of the first row of the table whose tact is strong, 0 if none.
FirstStrong(table, total, n) ==
  LET strong == {k \in 1..Len(table) : TactIsStrong(table[k].tact_sum, total, n)}
  IN  IF strong = {} THEN 0
      ELSE table[CHOOSE k \in strong : \A j \in strong : k <= j].beat

has_perc(bs) == \E i \in 1..Len(bs) : bs[i].perceptual_energy # 0

\* Line 308-311: the log line reads table_list[0] and table_list[1] whenever
\* the table is not empty; with one entry it raises IndexError.
find_song_start_perc_raises(bs, table) == has_perc(bs) /\ Len(table) = 1

find_song_start_perc(bs, table) ==
  IF ~has_perc(bs) THEN 0
  ELSE FirstStrong(table, SumRange(Percs(bs), 0, Len(bs)), Len(bs))

\* row['tact_sum'] > threshold_tact_sum, with threshold_tact_sum =
\* 4 * mean_energy * (1 - reduction) and mean_energy = total / n.
tact_above_threshold(tact_sum, total, n) ==
  tact_sum * n * 100 > 4 * total * (100 - energy_threshold_reduction_pct)

\* find_song_start: the beat of the first row of the table whose tact_sum
\* (perceptual energy) is above the threshold (band energy), 0 if none; the
\* table is returned with it.
find_song_start(bs, p1, p2) ==
  IF Len(bs) < 4 THEN [start_idx |-> 0, table |-> <<>>]
  ELSE LET table == build_strong_rows_tact_table(bs, p1, p2)
           total == SumRange(Energies(bs), 0, Len(bs))
           above == {k \in 1..Len(table) :
                       tact_above_threshold(table[k].tact_sum, total, Len(bs))}
       IN  [start_idx |-> IF above = {} THEN 0
                          ELSE table[CHOOSE k \in above : \A j \in above : k <= j].beat,
            table |-> table]

\* Lines 343-346 and 348-351: the energy appended for a tact that starts at
\* beat s < len(beats): the sum of its 4 beats, or the energy of its first
\* beat alone when fewer than 4 beats remain.
tact_energy(es, s) ==
  IF s + 3 < Len(es) THEN es[s + 1] + es[s + 2] + es[s + 3] + es[s + 4]
  ELSE es[s + 1]

\* row1_energy (first = start_idx) and row5_energy (first = start_idx + 4):
\* one entry for each q in range(n_quarters) whose tact starts inside the
\* series.
row_energy(es, first) ==
  LET Inside(q) == first + 8 * q < Len(es)
      qs == SelectSeq([k \in 1..initial_quarters_count |-> k - 1], Inside)
  IN  [k \in 1..Len(qs) |-> tact_energy(es, first + 8 * qs[k])]

\* row1_energy[:trim]
trimmed(row, trim) == SubSeq(row, 1, Min2(trim, Len(row)))

\* A variant in which row 1 has to be strictly greater to dominate.
row1_dominates_strictly(sum_r1, sum_r5) == sum_r1 > sum_r5

\* if sum_r1 >= sum_r5 (line 360) and if sum_r1t >= sum_r5t (line 372).
row1_dominates(sum_r1, sum_r5) == sum_r1 >= sum_r5

determine_rows(bs, start) ==
  LET r1 == row_energy(Energies(bs), start)
      r5 == row_energy(Energies(bs), start + 4)
      r1t == trimmed(r1, 4)
      r5t == trimmed(r5, 4)
  IN  IF r1 = <<>> \/ r5 = <<>>
      THEN [row1_offset |-> 0, row_swapped |-> FALSE]
      ELSE IF row1_dominates(SumRange(r1, 0, Len(r1)), SumRange(r5, 0, Len(r5)))
      THEN [row1_offset |-> 0, row_swapped |-> FALSE]
      ELSE IF row1_dominates(SumRange(r1t, 0, Len(r1t)), SumRange(r5t, 0, Len(r5t)))
      THEN [row1_offset |-> 0, row_swapped |-> FALSE]
      ELSE [row1_offset |-> 4, row_swapped |-> TRUE]

\* A variant that steps back by one 8-beat cycle at most.
shift_back_one_cycle(s) == IF s >= 8 THEN s - 8 ELSE s

\* Lines 1062-1064.
shift_back(s) == s - (s \div 8) * 8

\* ---------------------------------------------------------------- Phase 2
\* compare_part's sums over the slice active[lo:lo+len]: the beats whose
\* position (idx + row1_offset) % 8, idx counted from the slice start, is
\* below 4 (primary = TRUE) or not (primary = FALSE).
PartSum(es, from, len, off, primary) ==
  SumRange([i \in 1..len |->
              IF ((((i - 1) + off) % 8) < 4) = primary THEN es[from + i] ELSE 0],
           0, len)

\* A variant in which the secondary sum decides for green.
part_status_secondary(r1, r5) == IF r5 > r1 THEN "green" ELSE "red"

\* A variant in which a tie is green.
part_status_tie_green(r1, r5) == IF r1 >= r5 THEN "green" ELSE "red"

\* status_e = 'green' if r1_e > r5_e else 'red'
part_status(r1, r5) == IF r1 > r5 THEN "green" ELSE "red"

\* compare_part(used[lo:lo+len]); first and last are the global indices of
\* beat_slice[0] and beat_slice[-1], whose times the source records.
compare_part(es, start, lo, len, off, way, nr) ==
  LET r1 == PartSum(es, start + lo, len, off, TRUE)
      r5 == PartSum(es, start + lo, len, off, FALSE)
  IN  [way |-> way, nr |-> nr, first |-> start + lo, last |-> start + lo + len - 1,
       row1_energy |-> r1, row5_energy |-> r5, status |-> part_status(r1, r5)]

\* A variant that rounds down to whole 4-beat tacts.
part_size_whole_tacts(n_used, k) == ((n_used \div k) \div 4) * 4

\* A variant without the rounding down to whole 8-beat cycles.
part_size_unrounded(n_used, k) == n_used \div k

\* part_size_k = (n_used // k) // 8 * 8
part_size(n_used, k) == ((n_used \div k) \div 8) * 8

\* The parts of a k-way split (k = 2, 3, 5), none when part_size_k < 8.
parts_of(es, start, n_used, off, k) ==
  IF part_size(n_used, k) < 8 THEN <<>>
  ELSE [i \in 1..k |->
          compare_part(es, start, (i - 1) * part_size(n_used, k),
                       part_size(n_used, k), off, k, i)]

analyze_square(bs, start, off) ==
  LET n == IF Len(bs) > start THEN Len(bs) - start ELSE 0
      n_used == (n \div 8) * 8
      es == Energies(bs)
      parts == <<compare_part(es, start, 0, n_used, off, 1, 1)>>
               \o parts_of(es, start, n_used, off, 2)
               \o parts_of(es, start, n_used, off, 3)
               \o parts_of(es, start, n_used, off, 5)
  IN  IF n < 8 THEN [parts |-> <<>>, verdict |-> "insufficient_data", n_used |-> 0]
      ELSE [parts |-> parts,
            verdict |-> IF \E i \in 1..Len(parts) : parts[i].status = "red"
                        THEN "has_bridges" ELSE "square_confirmed",
            n_used |-> n_used]

\* -------------------------------------------------------------- quarters
\* A variant that keeps the position.
Flip_keep(position) == position

Flip(position) == IF position = "1-4" THEN "5-8" ELSE "1-4"

compute_quarters(bs, start, off) ==
  LET n == IF Len(bs) > start THEN Len(bs) - start ELSE 0
      es == Energies(bs)
  IN  [k \in 1..(n \div 4) |->
         [index |-> k - 1,
          beat_start_global |-> start + 4 * (k - 1),
          energy_sum |-> es[start + 4 * (k - 1) + 1] + es[start + 4 * (k - 1) + 2]
                         + es[start + 4 * (k - 1) + 3] + es[start + 4 * (k - 1) + 4],
          position |-> IF ((k - 1) + (off \div 4)) % 2 = 0 THEN "1-4" ELSE "5-8"]]

\* ------------------------------------------------------------ indicators
\* quarter_index = (beat - start_idx) // 4
indicator_quarter(beat, start) == (beat - start) \div 4

\* position = '1-4' if (beat - start_idx) % 8 < 4 else '5-8'
indicator_position(beat, start) == IF ((beat - start) % 8) < 4 THEN "1-4" ELSE "5-8"

\* A variant whose window is the w positions before the position only.
IndicatorRows_left_window(song_tacts, heads, start, w) ==
  LET IsMin(i) == heads[i + 1] > 0 /\
                  \A j \in (i - w)..i : heads[j + 1] >= heads[i + 1]
      hits == SelectSeq([k \in 1..(Len(song_tacts) - 2 * w) |-> w + k - 1], IsMin)
  IN  [k \in 1..Len(hits) |->
         [quarter_index |-> indicator_quarter(song_tacts[hits[k] + 1].beat, start),
          tact_index |-> hits[k],
          beat |-> song_tacts[hits[k] + 1].beat,
          position |-> indicator_position(song_tacts[hits[k] + 1].beat, start)]]

\* A variant without the test current <= 0.
IndicatorRows_zero_ok(song_tacts, heads, start, w) ==
  LET IsMin(i) == \A j \in (i - w)..(i + w) : heads[j + 1] >= heads[i + 1]
      hits == SelectSeq([k \in 1..(Len(song_tacts) - 2 * w) |-> w + k - 1], IsMin)
  IN  [k \in 1..Len(hits) |->
         [quarter_index |-> indicator_quarter(song_tacts[hits[k] + 1].beat, start),
          tact_index |-> hits[k],
          beat |-> song_tacts[hits[k] + 1].beat,
          position |-> indicator_position(song_tacts[hits[k] + 1].beat, start)]]

\* The loop of lines 597-630 over i in range(window, len(song_tacts) - window).
IndicatorRows(song_tacts, heads, start, w) ==
  LET IsMin(i) == heads[i + 1] > 0
                  /\ \A j \in (i - w)..(i + w) : heads[j + 1] >= heads[i + 1]
      hits == SelectSeq([k \in 1..(Len(song_tacts) - 2 * w) |-> w + k - 1], IsMin)
  IN  [k \in 1..Len(hits) |->
         [quarter_index |-> indicator_quarter(song_tacts[hits[k] + 1].beat, start),
          tact_index |-> hits[k],
          beat |-> song_tacts[hits[k] + 1].beat,
          position |-> indicator_position(song_tacts[hits[k] + 1].beat, start)]]

\* indicator_tact_table: one row for every position with a full window and a
\* positive energy (lines 597-618), none when the positions are too few.
indicator_tact_table(tact_list, start, bs, w) ==
  LET IsSong(t) == t.beat >= start
      song_tacts == SelectSeq(tact_list, IsSong)
      Positive(i) == bs[song_tacts[i + 1].beat + 1].energy > 0
      rows == SelectSeq([k \in 1..(Len(song_tacts) - 2 * w) |-> w + k - 1], Positive)
  IN  IF Len(song_tacts) < 2 * w + 1 THEN <<>>
      ELSE [k \in 1..Len(rows) |->
              [tact_index |-> rows[k],
               beat |-> song_tacts[rows[k] + 1].beat,
               position |-> indicator_position(song_tacts[rows[k] + 1].beat, start)]]

\* A variant that shrinks the window to the positions there are instead of
\* returning nothing.
compute_indicators_shrunk_window(tact_list, start, bs, w) ==
  LET IsSong(t) == t.beat >= start
      song_tacts == SelectSeq(tact_list, IsSong)
      heads == [j \in 1..Len(song_tacts) |-> bs[song_tacts[j].beat + 1].energy]
  IN  IF song_tacts = <<>> THEN <<>>
      ELSE IndicatorRows(song_tacts, heads, start,
                         Min2(w, (Len(song_tacts) - 1) \div 2))

\* probability = min(window) / current is 1.0 exactly when current is the
\* minimum of its window (current > 0; the 1e-9 tolerance of line 621 cannot
\* be met otherwise by integer energies).
compute_indicators_from_tacts(tact_list, start, bs, w) ==
  LET IsSong(t) == t.beat >= start
      song_tacts == SelectSeq(tact_list, IsSong)
      heads == [j \in 1..Len(song_tacts) |-> bs[song_tacts[j].beat + 1].energy]
  IN  IF Len(song_tacts) < 2 * w + 1 THEN <<>>
      ELSE IndicatorRows(song_tacts, heads, start, w)

\* ---------------------------------------------------------------- Phase 3
\* A variant that takes the physical position whatever the number of swaps.
pos_in_layout_physical(pos_physical, n_swaps) == pos_physical

\* pos_in_layout: the physical position, flipped after an odd number of swaps.
pos_in_layout(pos_physical, n_swaps) ==
  IF n_swaps % 2 = 0 THEN pos_physical ELSE Flip(pos_physical)

\* Line 726: the indicator is in the small square of the last bridge.
same_small_square(qi, last_q) ==
  last_q >= 0
  /\ (qi \div QUARTERS_PER_SMALL_SQUARE) = (last_q \div QUARTERS_PER_SMALL_SQUARE)

\* A variant that starts the lookahead at the indicator's own quarter.
next_square_start_own(qi) == qi

\* Line 733.
next_square_start(qi) == (qi \div QUARTERS_PER_SQUARE + 1) * QUARTERS_PER_SQUARE

RECURSIVE SumPosition(_, _, _, _)
SumPosition(qs, position, i, stop) ==
  IF i >= stop THEN 0
  ELSE (IF qs[i + 1].position = position THEN qs[i + 1].energy_sum ELSE 0)
       + SumPosition(qs, position, i + 1, stop)

\* <<r1_sum, r5_sum>> over range(start_qi, min(start_qi + count, len(quarters))).
_sum_next_quarters(qs, start_qi, count) ==
  <<SumPosition(qs, "1-4", start_qi, Min2(start_qi + count, Len(qs))),
    SumPosition(qs, "5-8", start_qi, Min2(start_qi + count, Len(qs)))>>

\* A variant for which no difference is below the threshold.
diff_below_threshold_never(r1, r5) == FALSE

\* diff_pct < threshold, with diff_pct = abs(r1 - r5) / max(r1, r5, 0.001).
diff_below_threshold(r1, r5) ==
  Abs(r1 - r5) * EnergyScale * 100
    < bridge_dominance_threshold_pct
      * Max2(Max2(r1 * EnergyScale, r5 * EnergyScale), EnergyScale \div 1000)

\* A variant that leaves the table as it is (no swap after a bridge).
_swap_quarters_after_none(qs, bridge_qi) == qs

\* Lines 805-811.
_swap_quarters_after(qs, bridge_qi) ==
  [k \in 1..Len(qs) |->
     IF k - 1 >= bridge_qi + 1
     THEN [qs[k] EXCEPT !.position = Flip(qs[k].position)]
     ELSE qs[k]]

\* A variant that records a confirmed bridge twice.
record_bridge_twice(bs, b) == Append(Append(bs, b), b)

\* A variant that records the newest bridge first.
record_bridge_first(bs, b) == <<b>> \o bs

\* bridges.append(...)
record_bridge(bs, b) == Append(bs, b)

\* A variant that takes the verdict on the extended lookahead without testing
\* its difference against the threshold again.
bridge_decision_no_second_test(ind, qs, n_swaps, last_q) ==
  LET qi == ind.quarter_index
      sq == _sum_next_quarters(qs, next_square_start(qi), QUARTERS_PER_SQUARE)
      ext == _sum_next_quarters(qs, next_square_start(qi),
                                QUARTERS_PER_SQUARE + QUARTERS_PER_SMALL_SQUARE)
      verdict(s) == IF s[2] > s[1] THEN "bridge_confirmed" ELSE "ignored_no_change"
  IN  IF pos_in_layout(ind.position, n_swaps) = "5-8"
      THEN [action |-> "ignored_break", row1_sum |-> 0, row5_sum |-> 0]
      ELSE IF same_small_square(qi, last_q)
      THEN [action |-> "ignored_same_square", row1_sum |-> 0, row5_sum |-> 0]
      ELSE IF sq[1] = 0 /\ sq[2] = 0
      THEN [action |-> "ignored_no_data", row1_sum |-> 0, row5_sum |-> 0]
      ELSE IF ~diff_below_threshold(sq[1], sq[2])
      THEN [action |-> verdict(sq), row1_sum |-> sq[1], row5_sum |-> sq[2]]
      ELSE [action |-> verdict(ext), row1_sum |-> ext[1], row5_sum |-> ext[2]]

\* One iteration of the loop of analyze_bridges over indicator ind: the
\* decision taken and the sums it was taken on.
\* (row1_sum and row5_sum are 0 in the decisions the source records without sums.)
bridge_decision(ind, qs, n_swaps, last_q) ==
  LET qi == ind.quarter_index
      sq == _sum_next_quarters(qs, next_square_start(qi), QUARTERS_PER_SQUARE)
      ext == _sum_next_quarters(qs, next_square_start(qi),
                                QUARTERS_PER_SQUARE + QUARTERS_PER_SMALL_SQUARE)
      verdict(s) == IF s[2] > s[1] THEN "bridge_confirmed" ELSE "ignored_no_change"
  IN  IF pos_in_layout(ind.position, n_swaps) = "5-8"
      THEN [action |-> "ignored_break", row1_sum |-> 0, row5_sum |-> 0]
      ELSE IF same_small_square(qi, last_q)
      THEN [action |-> "ignored_same_square", row1_sum |-> 0, row5_sum |-> 0]
      ELSE IF sq[1] = 0 /\ sq[2] = 0
      THEN [action |-> "ignored_no_data", row1_sum |-> 0, row5_sum |-> 0]
      ELSE IF ~diff_below_threshold(sq[1], sq[2])
      THEN [action |-> verdict(sq), row1_sum |-> sq[1], row5_sum |-> sq[2]]
      ELSE IF diff_below_threshold(ext[1], ext[2])
      THEN [action |-> "ignored_small_diff", row1_sum |-> ext[1], row5_sum |-> ext[2]]
      ELSE [action |-> verdict(ext), row1_sum |-> ext[1], row5_sum |-> ext[2]]

\* A variant that refuses the empty series only.
too_few_beats_empty_only(n) == n = 0

\* analyze_v2, line 1016: len(all_beats) < 16.
too_few_beats(n) == n < MIN_BEATS

\* ----------------------------------------------------------------- layout
\* analyze_popsa: one 4-beat segment per full quarter from start_idx on.
analyze_popsa(bs, start) ==
  LET n == IF Len(bs) > start THEN Len(bs) - start ELSE 0
  IN  [k \in 1..(n \div 4) |->
         [from_beat |-> start + 4 * (k - 1),
          to_beat |-> start + 4 * (k - 1) + 3,
          row1_start |-> IF (k - 1) % 2 = 0 THEN 1 ELSE 5]]

\* A variant that keeps the row.
toggle_row_stay(r) == r

\* current_row_start = 5 if current_row_start == 1 else 1
toggle_row(r) == IF r = 1 THEN 5 ELSE 1

\* The loop of generate_layout closes a segment at every quarter whose first
\* beat is a bridge beat: cuts is the sequence of those beats, in order.  The
\* j-th closed segment runs from the previous cut (the first quarter's beat
\* for j = 1) to the beat before the j-th cut, and the row toggles at each cut.
layout_cuts(qs, bridge_beats) ==
  LET IsCut(q) == q.beat_start_global \in bridge_beats
      hit == SelectSeq(qs, IsCut)
  IN  [j \in 1..Len(hit) |-> hit[j].beat_start_global]

row_after(first_row, toggles) ==
  IF toggles % 2 = 0 THEN first_row ELSE toggle_row(first_row)

generate_layout(qs, brs, bs, off) ==
  IF qs = <<>> THEN <<>>
  ELSE LET cuts == layout_cuts(qs, {brs[i].beat : i \in 1..Len(brs)})
           first_row == IF off = 4 THEN 5 ELSE 1
           seg_start(j) == IF j = 1 THEN qs[1].beat_start_global ELSE cuts[j - 1]
       IN  [j \in 1..(Len(cuts) + 1) |->
              [from_beat |-> seg_start(j),
               to_beat |-> IF j <= Len(cuts) THEN cuts[j] - 1
                           ELSE Min2(qs[Len(qs)].beat_start_global + 3, Len(bs) - 1),
               row1_start |-> row_after(first_row, j - 1)]]

\* The beat numbers of the JSON output count from 1.
beat1(x) == x + 1
output_layout(layout) ==
  [i \in 1..Len(layout) |->
     [from_beat |-> beat1(layout[i].from_beat), to_beat |-> beat1(layout[i].to_beat),
      row1_start |-> layout[i].row1_start]]

\* ------------------------------------------------- analyze_beat.py: grid
\* Times are whole ticks of 1/TicksPerSecond s; detected beats lie on slots
\* of SlotTicks ticks (0.5 s, 120 beats a minute).
TicksPerSecond == 40
SlotTicks == 20

\* sorted(times) of a set of distinct times.
RECURSIVE SortedTimes(_)
SortedTimes(S) ==
  IF S = {} THEN <<>>
  ELSE LET m == CHOOSE x \in S : \A y \in S : x <= y
       IN  <<m>> \o SortedTimes(S \ {m})

\* downbeats = all_beats[::4] if len(all_beats) >= 4 else [all_beats[0]],
\* taken when no downbeat was given (lines 81-82; all_beats is not empty).
default_downbeats(ab) ==
  IF Len(ab) >= 4
  THEN [k \in 1..((Len(ab) + 3) \div 4) |-> ab[4 * (k - 1) + 1]]
  ELSE <<ab[1]>>

\* beat_interval as a fraction <<ticks, divisor>>: np.mean(np.diff(all_beats))
\* = (last - first) / (n - 1), or 60.0 / bpm seconds for a single beat.
beat_interval(ab, bpm) ==
  IF Len(ab) > 1 THEN <<ab[Len(ab)] - ab[1], Len(ab) - 1>>
  ELSE <<60 * TicksPerSecond, bpm>>

\* abs(beat_time - downbeat_time) <= tolerance, with tolerance 10% of the
\* mean interval, or 0.01 s for a single beat (lines 89-94).
within_tolerance(ab, bt, dt) ==
  IF Len(ab) > 1
  THEN 10 * (Len(ab) - 1) * Abs(bt - dt) <= ab[Len(ab)] - ab[1]
  ELSE 100 * Abs(bt - dt) <= TicksPerSecond

\* The while loop of lines 104-113: whether beat_time meets a downbeat from
\* downbeat_idx on, and the index the loop leaves.
RECURSIVE match_downbeat(_, _, _, _)
match_downbeat(ab, db, bt, idx) ==
  IF idx >= Len(db) THEN [is_downbeat |-> FALSE, downbeat_idx |-> idx]
  ELSE IF within_tolerance(ab, bt, db[idx + 1])
  THEN [is_downbeat |-> TRUE, downbeat_idx |-> idx + 1]
  ELSE IF db[idx + 1] > bt THEN [is_downbeat |-> FALSE, downbeat_idx |-> idx]
  ELSE match_downbeat(ab, db, bt, idx + 1)

\* A variant that counts on without wrapping.
next_number_no_wrap(n) == n + 1

\* beat_number = (beat_number % 8) + 1
next_number(n) == (n % 8) + 1

\* ================================================================== state
VARIABLES
  beats,                \* the per-beat data: energy, perceptual_energy, madmom_score
  input_kind,           \* which family the series was drawn from
  pc,                   \* the stage to run next
  v2,                   \* TRUE while the run is an execution of analyze_v2
  peaks,                \* classify_peaks' (peak_count, peak1, peak2)
  strong_rows_tact_list,
  start_idx,
  row1_offset,
  square_result,
  quarters,
  indicators,
  ind_next,             \* analyze_bridges: number of indicators processed
  bridges,
  decisions,
  last_bridge_quarter,
  layout,
  result,               \* what analyze_v2 returned
  first_run,            \* the outputs of an earlier run of the stages on the same series
  row_swapped,          \* determine_rows' second return value
  all_beats,            \* generate_beats_from_downbeats: its arguments ...
  downbeats,
  bpm,
  duration,
  grid_pc,              \* ... its position ...
  grid,                 \* ... the list it builds (`beats` in analyze_beat.py) ...
  beat_number,          \* ... and its locals
  downbeat_idx,
  current_time          \* in 1/divisor ticks, divisor that of beat_interval

vars == <<beats, input_kind, pc, v2, peaks, strong_rows_tact_list, start_idx,
          row1_offset, square_result, quarters, indicators, ind_next, bridges,
          decisions, last_bridge_quarter, layout, result, first_run,
          row_swapped, all_beats, downbeats, bpm, duration, grid_pc, grid,
          beat_number, downbeat_idx, current_time>>

\* The variables of generate_beats_from_downbeats, and those of the analysis.
grid_vars == <<all_beats, downbeats, bpm, duration, grid_pc, grid, beat_number,
               downbeat_idx, current_time>>
track_vars == <<beats, input_kind, pc, v2, peaks, strong_rows_tact_list, start_idx,
                row1_offset, square_result, quarters, indicators, ind_next,
                bridges, decisions, last_bridge_quarter, layout, result,
                first_run, row_swapped>>

\* ----------------------------------------------------------------- inputs
\* Mean-confidence profiles by position 0..7, in units of 1/ScoreUnit.
ProfStd  == <<1800, 200, 200, 200, 1800, 200, 200, 200>>
Prof15   == <<200, 1800, 200, 200, 200, 1800, 200, 200>>
Prof05   == <<1800, 200, 200, 200, 400, 1600, 200, 200>>
Prof03   == <<1800, 200, 200, 1600, 600, 400, 200, 200>>
ProfPop  == <<1800, 200, 1600, 200, 1800, 200, 1600, 200>>
ProfTiny == <<1, 0, 1, 0, 1, 0, 1, 0>>
ShortProfiles == {ProfStd, Prof15, Prof05, Prof03, ProfPop, ProfTiny}
LongProfiles == {ProfStd, Prof15, Prof05}

\* perceptual_energy: not computed (all 0.0) or following the band energy.
PercModes == {"none", "same"}

\* An 8-beat cycle is N (count 1-4 loud, count 5-8 quiet) or I (the inverse).
CycleKinds == {"N", "I"}
CycleEnergy(kinds, i) ==
  IF (kinds[(i \div 8) + 1] = "N") = ((i % 8) < 4) THEN 2 ELSE 1

\* Scenario A: uniform energy with equal accents on residues 0 and 4.
\* Scenario B: the same, but on the square 96..127 the count 5-8 beats carry
\* 3 times the energy of the count 1-4 beats.
\* Scenario C: uniform energy 50 * level, but on the square and a half after
\* the square of B (beats 128..175) the count 5-8 beats carry 51 * level: the
\* rows differ by 1/51, less than the dominance threshold.
\* Scenario Z: scenario A with the square 96..127 silent (energy 0).
\* Scenario D: the loud half of the cycle changes sides from square to
\* square, one cycle before the square ends: the cycles of the even squares
\* are N N N I, those of the odd squares I I I N.
ScenarioEnergy(sc, base, accent, i) ==
  IF sc = "D"
  THEN (IF ((((i \div 32) % 2) = 0) = (((i \div 8) % 4) # 3)) = ((i % 8) < 4)
        THEN base + accent ELSE base)
  ELSE IF sc = "Z" /\ i >= ScenarioSquareStart /\ i < ScenarioSquareStart + 32
  THEN 0
  ELSE IF sc = "C"
  THEN (IF i >= ScenarioSquareStart + 32 /\ i < ScenarioSquareStart + 80 /\ (i % 8) >= 4
        THEN 51 * (base + accent) ELSE 50 * (base + accent))
  ELSE IF sc = "B" /\ i >= ScenarioSquareStart /\ i < ScenarioSquareStart + 32
  THEN (IF (i % 8) < 4 THEN 1 ELSE 3)
  ELSE base + (IF (i % 4) = 0 THEN accent ELSE 0)

MkBeat(e, pm, prof, i) ==
  [energy |-> e,
   perceptual_energy |-> IF pm = "none" THEN 0 ELSE e,
   madmom_score |-> prof[(i % 8) + 1]]

NoPeaks == [peak_count |-> 0, peak1 |-> 0, peak2 |-> 0]
NoSquare == [parts |-> <<>>, verdict |-> "none", n_used |-> 0]
NoRun == [ran |-> FALSE]
NoResult == [status |-> "pending", track_type |-> "none", song_start_beat |-> 0,
             layout |-> <<>>, indicators |-> <<>>, bridges |-> <<>>,
             square_verdict |-> "none"]

InitRest ==
  /\ pc = "entry"
  /\ v2 = TRUE
  /\ peaks = NoPeaks
  /\ strong_rows_tact_list = <<>>
  /\ start_idx = 0
  /\ row1_offset = 0
  /\ square_result = NoSquare
  /\ quarters = <<>>
  /\ indicators = <<>>
  /\ ind_next = 0
  /\ bridges = <<>>
  /\ decisions = <<>>
  /\ last_bridge_quarter = -999
  /\ layout = <<>>
  /\ result = NoResult
  /\ first_run = NoRun
  /\ row_swapped = FALSE

InitLong ==
  \E kinds \in [1..LongCycles -> CycleKinds], prof \in LongProfiles, pm \in PercModes :
    /\ beats = [i \in 1..(8 * LongCycles) |->
                  MkBeat(CycleEnergy(kinds, i - 1), pm, prof, i - 1)]
    /\ input_kind = "long"

InitShort ==
  \E n \in 0..MaxShort, kinds \in [1..((MaxShort + 7) \div 8) -> CycleKinds],
     prof \in ShortProfiles, pm \in PercModes :
    /\ beats = [i \in 1..n |-> MkBeat(CycleEnergy(kinds, i - 1), pm, prof, i - 1)]
    /\ input_kind = "short"

\* Series around the length at which the strong-row positions first fill one
\* window of 2 * indicator_window + 1 positions (two positions every 8 beats).
WindowBeats == 8 * indicator_window
InitWindow ==
  \E n \in (WindowBeats - 2)..(WindowBeats + 8),
     kinds \in [1..((WindowBeats \div 8) + 1) -> CycleKinds], pm \in PercModes :
    /\ beats = [i \in 1..n |-> MkBeat(CycleEnergy(kinds, i - 1), pm, ProfStd, i - 1)]
    /\ input_kind = "window"

InitScenario ==
  \E sc \in {"A", "B", "C", "D", "Z"}, base \in 1..MaxLevel, accent \in 1..MaxLevel, pm \in PercModes :
    /\ beats = [i \in 1..ScenarioBeats |->
                  MkBeat(ScenarioEnergy(sc, base, accent, i - 1), pm, ProfStd, i - 1)]
    /\ input_kind = sc

\* generate_beats_from_downbeats not called.
NoGrid ==
  /\ all_beats = <<>> /\ downbeats = <<>> /\ bpm = 120 /\ duration = 0
  /\ grid_pc = "idle" /\ grid = <<>>
  /\ beat_number = 1 /\ downbeat_idx = 0 /\ current_time = 0

Init == (InitLong \/ InitShort \/ InitWindow \/ InitScenario) /\ InitRest /\ NoGrid

\* A call of generate_beats_from_downbeats: beats on some of the slots
\* 0..MaxSlot, downbeats on some of the slots, all of them late by 0, 1 or 5
\* ticks, a tempo of 60 or 120, a track that ends at tick 0 or PadSlots slots
\* later.  No analysis runs.
InitGrid ==
  /\ beats = <<>> /\ input_kind = "grid" /\ InitRest
  /\ \E bs \in SUBSET (0..MaxSlot), ds \in SUBSET (0..MaxSlot),
        late \in {0, 1, 5}, tempo \in {60, 120}, final \in {0, PadSlots} :
       /\ all_beats = SortedTimes({SlotTicks * k : k \in bs})
       /\ downbeats = SortedTimes({SlotTicks * k + late : k \in ds})
       /\ bpm = tempo
       /\ duration = SlotTicks * final
  /\ grid_pc = "call" /\ grid = <<>>
  /\ beat_number = 1 /\ downbeat_idx = 0 /\ current_time = 0

\* ---------------------------------------------------------------- actions
\* analyze_v2, lines 1016-1017: too few beats.
V2Reject ==
  /\ pc = "entry" /\ too_few_beats(Len(beats))
  /\ result' = [NoResult EXCEPT !.status = "error"]
  /\ pc' = "done"
  /\ UNCHANGED <<grid_vars, row_swapped, first_run, beats, input_kind, v2, peaks, strong_rows_tact_list, start_idx,
                 row1_offset, square_result, quarters, indicators, ind_next,
                 bridges, decisions, last_bridge_quarter, layout>>

V2Accept ==
  /\ pc = "entry" /\ ~too_few_beats(Len(beats))
  /\ pc' = "classify"
  /\ UNCHANGED <<grid_vars, row_swapped, first_run, beats, input_kind, v2, peaks, strong_rows_tact_list, start_idx,
                 row1_offset, square_result, quarters, indicators, ind_next,
                 bridges, decisions, last_bridge_quarter, layout, result>>

\* The stage functions called directly, in the order of the phases, on a
\* series analyze_v2 would refuse.
DirectCall ==
  /\ pc = "entry" /\ too_few_beats(Len(beats))
  /\ v2' = FALSE
  /\ pc' = "classify"
  /\ UNCHANGED <<grid_vars, row_swapped, first_run, beats, input_kind, peaks, strong_rows_tact_list, start_idx,
                 row1_offset, square_result, quarters, indicators, ind_next,
                 bridges, decisions, last_bridge_quarter, layout, result>>

ClassifyPeaks ==
  /\ pc = "classify"
  /\ peaks' = classify_peaks(beats)
  /\ pc' = "start"
  /\ UNCHANGED <<grid_vars, row_swapped, first_run, beats, input_kind, v2, strong_rows_tact_list, start_idx,
                 row1_offset, square_result, quarters, indicators, ind_next,
                 bridges, decisions, last_bridge_quarter, layout, result>>

FindSongStartPerc ==
  /\ pc = "start"
  /\ LET table == build_strong_rows_tact_table(beats, peaks.peak1, peaks.peak2)
     IN  /\ strong_rows_tact_list' = table
         /\ IF find_song_start_perc_raises(beats, table)
            THEN pc' = "raised" /\ start_idx' = start_idx
            ELSE pc' = "shift" /\ start_idx' = find_song_start_perc(beats, table)
  /\ UNCHANGED <<grid_vars, row_swapped, first_run, beats, input_kind, v2, peaks, row1_offset, square_result,
                 quarters, indicators, ind_next, bridges, decisions,
                 last_bridge_quarter, layout, result>>

ShiftBack ==
  /\ pc = "shift"
  /\ start_idx' = shift_back(start_idx)
  /\ pc' = IF peaks.peak_count = 4 THEN "popsa" ELSE "square"
  /\ UNCHANGED <<grid_vars, row_swapped, first_run, beats, input_kind, v2, peaks, strong_rows_tact_list,
                 row1_offset, square_result, quarters, indicators, ind_next,
                 bridges, decisions, last_bridge_quarter, layout, result>>

\* Lines 1069-1113: the 4-peak track.
AnalyzePopsa ==
  /\ pc = "popsa"
  /\ layout' = analyze_popsa(beats, peaks.peak1)
  /\ result' = IF v2
               THEN [status |-> "ok", track_type |-> "popsa",
                     song_start_beat |-> beat1(peaks.peak1),
                     layout |-> output_layout(layout'),
                     indicators |-> <<>>, bridges |-> <<>>,
                     square_verdict |-> "popsa"]
               ELSE result
  /\ pc' = "done"
  /\ UNCHANGED <<grid_vars, row_swapped, first_run, beats, input_kind, v2, peaks, strong_rows_tact_list, start_idx,
                 row1_offset, square_result, quarters, indicators, ind_next,
                 bridges, decisions, last_bridge_quarter>>

AnalyzeSquare ==
  /\ pc = "square"
  /\ square_result' = analyze_square(beats, start_idx, row1_offset)
  /\ pc' = "quarters"
  /\ UNCHANGED <<grid_vars, row_swapped, first_run, beats, input_kind, v2, peaks, strong_rows_tact_list, start_idx,
                 row1_offset, quarters, indicators, ind_next, bridges, decisions,
                 last_bridge_quarter, layout, result>>

ComputeQuarters ==
  /\ pc = "quarters"
  /\ quarters' = compute_quarters(beats, start_idx, row1_offset)
  /\ pc' = "phase3"
  /\ UNCHANGED <<grid_vars, row_swapped, first_run, beats, input_kind, v2, peaks, strong_rows_tact_list, start_idx,
                 row1_offset, square_result, indicators, ind_next, bridges,
                 decisions, last_bridge_quarter, layout, result>>

\* Lines 1118-1127 and 1150-1201: analyze_v2 skips the bridge search (the
\* indicator and bridge lists stay empty) and builds the layout.
V2Finish ==
  /\ pc = "phase3" /\ v2
  /\ layout' = generate_layout(quarters, <<>>, beats, row1_offset)
  /\ result' = [status |-> "ok", track_type |-> "bachata",
                song_start_beat |-> beat1(start_idx),
                layout |-> output_layout(layout'),
                indicators |-> <<>>, bridges |-> <<>>,
                square_verdict |-> square_result.verdict]
  /\ pc' = "done"
  /\ UNCHANGED <<grid_vars, row_swapped, first_run, beats, input_kind, v2, peaks, strong_rows_tact_list, start_idx,
                 row1_offset, square_result, quarters, indicators, ind_next,
                 bridges, decisions, last_bridge_quarter>>

\* Phase 3 called on the data of the earlier phases.
ComputeIndicators ==
  /\ pc = "phase3"
  /\ v2' = FALSE
  /\ indicators' = compute_indicators_from_tacts(strong_rows_tact_list, start_idx,
                                                  beats, indicator_window)
  /\ pc' = "bridges"
  /\ UNCHANGED <<grid_vars, row_swapped, first_run, beats, input_kind, peaks, strong_rows_tact_list, start_idx,
                 row1_offset, square_result, quarters, ind_next, bridges,
                 decisions, last_bridge_quarter, layout, result>>

\* analyze_bridges, lines 712-783: one iteration of the loop.
BridgeStep ==
  /\ pc = "bridges" /\ ind_next < Len(indicators)
  /\ LET ind == indicators[ind_next + 1]
         d == bridge_decision(ind, quarters, Len(bridges), last_bridge_quarter)
     IN  /\ decisions' = Append(decisions,
                            [quarter_index |-> ind.quarter_index, beat |-> ind.beat,
                             action |-> d.action,
                             row1_sum |-> d.row1_sum, row5_sum |-> d.row5_sum])
         /\ IF d.action = "bridge_confirmed"
            THEN /\ bridges' = record_bridge(bridges,
                                  [beat |-> ind.beat, quarter_index |-> ind.quarter_index,
                                   row1_sum |-> d.row1_sum, row5_sum |-> d.row5_sum])
                 /\ last_bridge_quarter' = ind.quarter_index
                 /\ quarters' = _swap_quarters_after(quarters, ind.quarter_index)
            ELSE UNCHANGED <<bridges, last_bridge_quarter, quarters>>
  /\ ind_next' = ind_next + 1
  /\ UNCHANGED <<grid_vars, row_swapped, first_run, beats, input_kind, pc, v2, peaks, strong_rows_tact_list,
                 start_idx, row1_offset, square_result, indicators, layout, result>>

GenerateLayout ==
  /\ pc = "bridges" /\ ind_next = Len(indicators)
  /\ layout' = generate_layout(quarters, bridges, beats, row1_offset)
  /\ pc' = "done"
  /\ UNCHANGED <<grid_vars, row_swapped, first_run, beats, input_kind, v2, peaks, strong_rows_tact_list, start_idx,
                 row1_offset, square_result, quarters, indicators, ind_next,
                 bridges, decisions, last_bridge_quarter, result>>

\* What a run of the stages hands back: the phase, the square verdict, the
\* indicators, the bridge list with its decisions, and the layout.
RunOutputs ==
  [ran |-> TRUE, peaks |-> peaks, start_idx |-> start_idx,
   row1_offset |-> row1_offset, verdict |-> square_result.verdict,
   indicators |-> indicators, bridges |-> bridges, decisions |-> decisions,
   layout |-> layout]

\* A variant of the second run that calls analyze_bridges again on the
\* quarter table and the indicators of the first run.
RunAgain_same_quarter_table ==
  /\ pc = "done" /\ ~v2 /\ first_run = NoRun /\ peaks.peak_count = 2
  /\ first_run' = RunOutputs
  /\ pc' = "bridges"
  /\ ind_next' = 0
  /\ bridges' = <<>>
  /\ decisions' = <<>>
  /\ last_bridge_quarter' = -999
  /\ layout' = <<>>
  /\ UNCHANGED <<grid_vars, row_swapped, beats, input_kind, v2, peaks, strong_rows_tact_list, start_idx,
                 row1_offset, square_result, quarters, indicators, result>>

\* The stages are run a second time on the same beat series and
\* configuration: every stage starts from its arguments, nothing of the first
\* run is kept (each builds its lists anew; analyze_bridges changes the
\* quarter table in place, and compute_quarters builds a new one).
RunAgain ==
  /\ pc = "done" /\ ~v2 /\ first_run = NoRun
  /\ first_run' = RunOutputs
  /\ pc' = "classify"
  /\ peaks' = NoPeaks
  /\ strong_rows_tact_list' = <<>>
  /\ start_idx' = 0
  /\ row1_offset' = 0
  /\ square_result' = NoSquare
  /\ quarters' = <<>>
  /\ indicators' = <<>>
  /\ ind_next' = 0
  /\ bridges' = <<>>
  /\ decisions' = <<>>
  /\ last_bridge_quarter' = -999
  /\ layout' = <<>>
  /\ UNCHANGED <<grid_vars, row_swapped, beats, input_kind, v2, result>>

Next ==
  \/ V2Reject
  \/ V2Accept
  \/ DirectCall
  \/ ClassifyPeaks
  \/ FindSongStartPerc
  \/ ShiftBack
  \/ AnalyzePopsa
  \/ AnalyzeSquare
  \/ ComputeQuarters
  \/ V2Finish
  \/ ComputeIndicators
  \/ BridgeStep
  \/ GenerateLayout

Spec == Init /\ [][Next]_vars

\* The stages run once, and then possibly a second time on the same series.
NextTwice ==
  \/ Next
  \/ RunAgain

SpecTwice == Init /\ [][NextTwice]_vars

\* The three passes of Phase 1 as the functions of lines 126-377 define them:
\* classify_peaks, then find_song_start on its peaks, then determine_rows
\* on the start found.
Phase1Classify ==
  /\ pc = "entry"
  /\ v2' = FALSE
  /\ peaks' = classify_peaks(beats)
  /\ pc' = "pass2"
  /\ UNCHANGED <<grid_vars, row_swapped, first_run, beats, input_kind, strong_rows_tact_list,
                 start_idx, row1_offset, square_result, quarters, indicators,
                 ind_next, bridges, decisions, last_bridge_quarter, layout, result>>

FindSongStart ==
  /\ pc = "pass2"
  /\ LET found == find_song_start(beats, peaks.peak1, peaks.peak2)
     IN  /\ start_idx' = found.start_idx
         /\ strong_rows_tact_list' = found.table
  /\ pc' = "pass3"
  /\ UNCHANGED <<grid_vars, row_swapped, first_run, beats, input_kind, v2, peaks, row1_offset,
                 square_result, quarters, indicators, ind_next, bridges,
                 decisions, last_bridge_quarter, layout, result>>

DetermineRows ==
  /\ pc = "pass3"
  /\ LET rows == determine_rows(beats, start_idx)
     IN  /\ row1_offset' = rows.row1_offset
         /\ row_swapped' = rows.row_swapped
  /\ pc' = "phase1_done"
  /\ UNCHANGED <<grid_vars, first_run, beats, input_kind, v2, peaks, strong_rows_tact_list,
                 start_idx, square_result, quarters, indicators, ind_next,
                 bridges, decisions, last_bridge_quarter, layout, result>>

\* compute_quarters and compute_indicators_from_tacts called with the start
\* and the row1_offset that Phase 1 returned.
QuartersAndIndicators ==
  /\ pc = "phase1_done"
  /\ quarters' = compute_quarters(beats, start_idx, row1_offset)
  /\ indicators' = compute_indicators_from_tacts(strong_rows_tact_list, start_idx,
                                                  beats, indicator_window)
  /\ pc' = "phase1_scan"
  /\ UNCHANGED <<grid_vars, row_swapped, first_run, beats, input_kind, v2, peaks,
                 strong_rows_tact_list, start_idx, row1_offset, square_result,
                 ind_next, bridges, decisions, last_bridge_quarter, layout, result>>

NextPhase1 ==
  \/ Phase1Classify
  \/ FindSongStart
  \/ DetermineRows
  \/ QuartersAndIndicators

SpecPhase1 == Init /\ [][NextPhase1]_vars

\* generate_beats_from_downbeats, lines 76-98: nothing to do without beats;
\* the downbeats default to every 4th beat.
GridCall ==
  /\ grid_pc = "call"
  /\ IF all_beats = <<>>
     THEN grid_pc' = "returned" /\ downbeats' = downbeats
     ELSE /\ grid_pc' = "number"
          /\ downbeats' = IF downbeats = <<>> THEN default_downbeats(all_beats)
                          ELSE downbeats
  /\ UNCHANGED <<track_vars, all_beats, bpm, duration, grid, beat_number,
                 downbeat_idx, current_time>>

\* One iteration of the loop of lines 100-126 over all_beats.
NumberBeat ==
  /\ grid_pc = "number" /\ Len(grid) < Len(all_beats)
  /\ LET beat_time == all_beats[Len(grid) + 1]
         m == match_downbeat(all_beats, downbeats, beat_time, downbeat_idx)
         number == IF m.is_downbeat THEN 1 ELSE beat_number
     IN  /\ grid' = Append(grid, [time |-> beat_time, number |-> number,
                                  is_downbeat |-> m.is_downbeat, padded |-> FALSE])
         /\ downbeat_idx' = m.downbeat_idx
         /\ beat_number' = next_number(number)
  /\ UNCHANGED <<track_vars, all_beats, downbeats, bpm, duration, grid_pc,
                 current_time>>

\* Lines 129-138: the loop is over; padding starts one interval after the
\* last beat when that beat lies before the end of the track.
GridPadStart ==
  /\ grid_pc = "number" /\ Len(grid) = Len(all_beats)
  /\ LET last_beat_time == grid[Len(grid)].time
         interval == beat_interval(all_beats, bpm)
     IN  IF last_beat_time < duration
         THEN /\ grid_pc' = "pad"
              /\ current_time' = last_beat_time * interval[2] + interval[1]
         ELSE /\ grid_pc' = "returned"
              /\ current_time' = current_time
  /\ UNCHANGED <<track_vars, all_beats, downbeats, bpm, duration, grid,
                 beat_number, downbeat_idx>>

\* One iteration of the loop of lines 139-145.
PadBeat ==
  /\ grid_pc = "pad"
  /\ current_time <= duration * beat_interval(all_beats, bpm)[2]
  /\ grid' = Append(grid, [time |-> current_time \div beat_interval(all_beats, bpm)[2],
                           number |-> beat_number,
                           is_downbeat |-> FALSE, padded |-> TRUE])
  /\ current_time' = current_time + beat_interval(all_beats, bpm)[1]
  /\ beat_number' = next_number(beat_number)
  /\ UNCHANGED <<track_vars, all_beats, downbeats, bpm, duration, grid_pc,
                 downbeat_idx>>

GridReturn ==
  /\ grid_pc = "pad"
  /\ current_time > duration * beat_interval(all_beats, bpm)[2]
  /\ grid_pc' = "returned"
  /\ UNCHANGED <<track_vars, all_beats, downbeats, bpm, duration, grid,
                 beat_number, downbeat_idx, current_time>>

NextGrid ==
  \/ GridCall
  \/ NumberBeat
  \/ GridPadStart
  \/ PadBeat
  \/ GridReturn

SpecGrid == InitGrid /\ [][NextGrid]_vars

\* ================================================================= claims
BeatsPerSquare == 4 * QUARTERS_PER_SQUARE
BeatsPerSmallSquare == 4 * QUARTERS_PER_SMALL_SQUARE

\* The aligned square, counted from the song start, that holds a beat.
SquareOfBeat(b) == (b - start_idx) \div BeatsPerSquare

\* C1 (as stated): any two distinct confirmed bridges have beat indices that
\* differ by at least 16 beats.
C1_Original ==
  \A i, j \in 1..Len(bridges) :
    i # j => Abs(bridges[i].beat - bridges[j].beat) >= BeatsPerSmallSquare

\* C1 (amended): any two distinct confirmed bridges lie in different aligned
\* squares of 32 beats counted from the song start (hence in different aligned
\* small squares); nothing bounds their distance in beats from below by 16.
C1_BridgesInDistinctSquares ==
  \A i, j \in 1..Len(bridges) :
    i # j => SquareOfBeat(bridges[i].beat) # SquareOfBeat(bridges[j].beat)

\* Two bridges confirmed less than 16 beats apart.
C1_Witness ==
  \E i, j \in 1..Len(bridges) :
    /\ i # j
    /\ Abs(bridges[i].beat - bridges[j].beat) < BeatsPerSmallSquare
    /\ SquareOfBeat(bridges[i].beat) # SquareOfBeat(bridges[j].beat)

\* The position after n flips.
FlipTimes(position, n) == IF n % 2 = 0 THEN position ELSE Flip(position)

\* The number of confirmed bridges whose beat index is at most i.
BridgesUpTo(i) == Cardinality({k \in 1..Len(bridges) : bridges[k].beat <= i})

\* The quarter table as compute_quarters built it, before any swap.
InitialQuarters == compute_quarters(beats, start_idx, row1_offset)

\* C2 (as stated): after bridge detection, the position of the quarter that
\* contains beat i is the initial position flipped once for every confirmed
\* bridge with beat index <= i, for every beat i of the quarter table; the
\* quarter that starts at a bridge beat is already flipped.
C2_Original ==
  pc = "done" =>
    \A k \in 1..Len(quarters) : \A d \in 0..3 :
      quarters[k].position =
        FlipTimes(InitialQuarters[k].position,
                  BridgesUpTo(quarters[k].beat_start_global + d))

\* A bridge was confirmed on the first beat of a quarter, and after the
\* detection that quarter still has the position it started with.
C2_Witness ==
  /\ pc = "done"
  /\ \E b \in 1..Len(bridges) : \E k \in 1..Len(quarters) :
       /\ quarters[k].beat_start_global = bridges[b].beat
       /\ BridgesUpTo(bridges[b].beat) = 1
       /\ quarters[k].position = InitialQuarters[k].position

\* The parts of the k-way partition of the last analyze_square, in order.
WayParts(k) ==
  LET IsWay(p) == p.way = k
  IN  SelectSeq(square_result.parts, IsWay)

PartLen(p) == p.last - p.first + 1

\* The parts of ps are consecutive from the first beat of the active range.
Consecutive(ps) ==
  /\ ps[1].first = start_idx
  /\ \A j \in 1..(Len(ps) - 1) : ps[j + 1].first = ps[j].last + 1

SquareAnalyzed == square_result.verdict \in {"square_confirmed", "has_bridges"}

Ways == {1, 2, 3, 5}

\* C3 (as stated): every partition analyze_square produces covers exactly the
\* N beats of the truncated range, without gap or overlap.
C3_Original ==
  SquareAnalyzed =>
    \A k \in Ways :
      WayParts(k) # <<>> =>
        /\ Consecutive(WayParts(k))
        /\ WayParts(k)[Len(WayParts(k))].last = start_idx + square_result.n_used - 1

\* C3 (amended): the k-way partition is produced exactly when N >= 8k; it has
\* k consecutive parts of one length L, a multiple of 8, starting at the first
\* beat of the range; L is the largest such length with k * L <= N, so the
\* parts cover the first k * L beats and leave N - k * L < 8k beats of the
\* truncated range out; the 1-way partition covers exactly the N beats.
C3_PartitionsCoverPrefix ==
  SquareAnalyzed =>
    \A k \in Ways :
      LET ps == WayParts(k)
          N == square_result.n_used
      IN  /\ (ps # <<>>) <=> (N >= 8 * k)
          /\ ps # <<>> =>
               /\ Len(ps) = k
               /\ Consecutive(ps)
               /\ \A j \in 1..k : PartLen(ps[j]) = PartLen(ps[1])
               /\ PartLen(ps[1]) % 8 = 0
               /\ k * PartLen(ps[1]) <= N
               /\ N - k * PartLen(ps[1]) < 8 * k
               /\ (k = 1 => PartLen(ps[1]) = N)

\* A 2-way and a 5-way partition that both leave beats of the range out.
C3_Witness ==
  /\ SquareAnalyzed
  /\ WayParts(2) # <<>> /\ 2 * PartLen(WayParts(2)[1]) < square_result.n_used
  /\ WayParts(5) # <<>> /\ 5 * PartLen(WayParts(5)[1]) < square_result.n_used

IsIndicatorBeat(b) == \E k \in 1..Len(indicators) : indicators[k].beat = b

\* The series is scenario sc, classified with peaks 0 and 4 and started at 0.
ScenarioRun(sc) ==
  /\ input_kind = sc
  /\ peaks = [peak_count |-> 2, peak1 |-> 0, peak2 |-> 4]
  /\ start_idx = 0

\* C4 (as stated): in scenario B the pipeline confirms exactly one bridge, at
\* beat 96, and the layout has exactly two segments, the second starting at
\* beat 96 with the opposite row assignment.
C4_Original ==
  (ScenarioRun("B") /\ pc = "done") =>
    /\ Len(bridges) = 1
    /\ bridges[1].beat = ScenarioSquareStart
    /\ Len(layout) = 2
    /\ layout[2].from_beat = ScenarioSquareStart
    /\ layout[2].row1_start = toggle_row(layout[1].row1_start)

\* Scenario B went through the bridge scan with beat 96 among the indicators,
\* and no bridge was confirmed at beat 96.
C4_Witness ==
  /\ ScenarioRun("B") /\ pc = "done"
  /\ IsIndicatorBeat(ScenarioSquareStart)
  /\ \A k \in 1..Len(bridges) : bridges[k].beat # ScenarioSquareStart

\* C5 (as stated): in scenario A the resolved start index is 0, analyze_square
\* returns square_confirmed and the bridge list is empty.
C5_Original ==
  (input_kind = "A" /\ pc = "done") =>
    /\ start_idx = 0
    /\ square_result.verdict = "square_confirmed"
    /\ bridges = <<>>

\* C5 (amended): in scenario A the peaks are 0 and 4, the resolved start index
\* is 0 and the bridge list is empty, both in analyze_v2's result and after a
\* bridge scan over the indicators; every part of analyze_square is a tie,
\* which is red, so the verdict is has_bridges.
C5_ScenarioA ==
  (input_kind = "A" /\ pc = "done") =>
    /\ peaks = [peak_count |-> 2, peak1 |-> 0, peak2 |-> 4]
    /\ start_idx = 0
    /\ \A i \in 1..Len(square_result.parts) :
         /\ square_result.parts[i].row1_energy = square_result.parts[i].row5_energy
         /\ square_result.parts[i].status = "red"
    /\ square_result.verdict = "has_bridges"
    /\ bridges = <<>>
    /\ v2 => /\ result.status = "ok"
             /\ result.song_start_beat = beat1(0)
             /\ result.square_verdict = "has_bridges"
             /\ result.bridges = <<>>

\* Scenario A went through the square analysis and a bridge scan that looked
\* at indicators.
C5_Witness ==
  /\ input_kind = "A" /\ pc = "done" /\ ~v2
  /\ Len(square_result.parts) > 1
  /\ Len(decisions) > 0

\* generate_layout has run on a quarter table that is not empty.
LayoutGenerated == pc = "done" /\ peaks.peak_count = 2 /\ quarters # <<>>

\* C6 (as stated): generate_layout emits len(bridges) + 1 segments, and every
\* confirmed bridge's beat is the from_beat of a segment whose row is the
\* toggle of the preceding segment's row.
C6_Original ==
  LayoutGenerated =>
    /\ Len(layout) = Len(bridges) + 1
    /\ \A b \in 1..Len(bridges) :
         \E j \in 2..Len(layout) :
           /\ layout[j].from_beat = bridges[b].beat
           /\ layout[j].row1_start = toggle_row(layout[j - 1].row1_start)

\* A confirmed bridge whose beat is not the first beat of any quarter, and a
\* layout that has no segment for it.
C6_Witness ==
  /\ LayoutGenerated
  /\ \E b \in 1..Len(bridges) :
       /\ \A k \in 1..Len(quarters) : quarters[k].beat_start_global # bridges[b].beat
       /\ \A j \in 1..Len(layout) : layout[j].from_beat # bridges[b].beat

\* C7: the bridges of one run of the bridge detector are recorded in strictly
\* increasing beat index: each one has a beat index greater than that of
\* every bridge recorded before it.
C7_BridgesIncreasing ==
  \A i, j \in 1..Len(bridges) : i < j => bridges[i].beat < bridges[j].beat

\* The detector has finished and recorded at least two bridges.
C7_Witness == pc = "done" /\ Len(bridges) >= 2

\* The next indicator of the bridge scan reaches the lookahead test, and the
\* difference of its row sums is below the dominance threshold on the
\* one-square lookahead and on the lookahead extended by one small square.
SmallDiffIndicator ==
  /\ pc = "bridges" /\ ind_next < Len(indicators)
  /\ LET ind == indicators[ind_next + 1]
         from == next_square_start(ind.quarter_index)
         sq == _sum_next_quarters(quarters, from, QUARTERS_PER_SQUARE)
         ext == _sum_next_quarters(quarters, from,
                                   QUARTERS_PER_SQUARE + QUARTERS_PER_SMALL_SQUARE)
     IN  /\ pos_in_layout(ind.position, Len(bridges)) = "1-4"
         /\ ~same_small_square(ind.quarter_index, last_bridge_quarter)
         /\ ~(sq[1] = 0 /\ sq[2] = 0)
         /\ diff_below_threshold(sq[1], sq[2])
         /\ diff_below_threshold(ext[1], ext[2])

\* C8: when the difference of an indicator's row sums is below the dominance
\* threshold on the square after it and still below it on the extended
\* lookahead, the indicator is rejected (ignored_small_diff) and the step
\* changes nothing: the bridge list (whose length is the swap count), the
\* last-bridge quarter and every quarter's position stay as they were.
C8_RejectedStepChangesNothing ==
  [][SmallDiffIndicator =>
       /\ bridges' = bridges
       /\ Len(bridges') = Len(bridges)
       /\ last_bridge_quarter' = last_bridge_quarter
       /\ quarters' = quarters
       /\ Len(decisions') = Len(decisions) + 1
       /\ decisions'[Len(decisions')].action = "ignored_small_diff"]_vars

\* An indicator was rejected for a small difference although count 5-8 was
\* the louder row on the extended lookahead.
C8_Witness ==
  /\ decisions # <<>>
  /\ decisions[Len(decisions)].action = "ignored_small_diff"
  /\ decisions[Len(decisions)].row5_sum > decisions[Len(decisions)].row1_sum

\* classify_peaks has run on the series.
Classified == peaks # NoPeaks

\* The larger of the two peak means, as a fraction.
LargerPeakMean ==
  FracMax(avg_scores(beats)[peaks.peak1], avg_scores(beats)[peaks.peak2])

\* The mean of both midpoint residues exceeds 0.70 times the larger peak mean.
MidsExceedRatio ==
  \A p \in {peaks.peak1, peaks.peak2} :
    LET m == avg_scores(beats)[Mod8(p + 2)]
    IN  m[1] * LargerPeakMean[2] * 100
          > popsa_peak_threshold_pct * LargerPeakMean[1] * m[2]

\* The larger peak mean is at least 0.001.
LargerPeakMeanAtFloor == LargerPeakMean[1] * 1000 >= LargerPeakMean[2] * ScoreUnit

\* The 4-peak outcome: consecutive 4-beat segments from peak1 with row start
\* 1, 5, 1, 5, ..., no square analysis, no quarter table, no bridge scan, and
\* in analyze_v2's result the popsa layout with empty indicator and bridge
\* lists.
PopsaOutcome ==
  /\ peaks.peak_count = 4
  /\ pc \in {"start", "shift", "popsa", "done", "raised"}
  /\ square_result = NoSquare /\ quarters = <<>>
  /\ indicators = <<>> /\ decisions = <<>> /\ bridges = <<>>
  /\ pc = "done" =>
       /\ Len(layout) = (Len(beats) - peaks.peak1) \div 4
       /\ \A j \in 1..Len(layout) :
            /\ layout[j].from_beat = peaks.peak1 + 4 * (j - 1)
            /\ layout[j].to_beat = layout[j].from_beat + 3
            /\ layout[j].row1_start = (IF j % 2 = 1 THEN 1 ELSE 5)
       /\ v2 => /\ result.status = "ok"
                /\ result.track_type = "popsa"
                /\ result.song_start_beat = beat1(peaks.peak1)
                /\ result.layout = output_layout(layout)
                /\ result.indicators = <<>>
                /\ result.bridges = <<>>

\* C9 (as stated): when both midpoint means exceed 0.70 times the larger peak
\* mean, classify_peaks reports 4 peaks and the pipeline returns the
\* alternating layout without square analysis or bridge scan.
C9_Original == (Classified /\ MidsExceedRatio) => PopsaOutcome

\* C9 (amended): the same, provided the larger peak mean is at least 0.001,
\* the floor of the reference score the midpoints are compared with.
C9_PopsaShortCircuit ==
  (Classified /\ MidsExceedRatio /\ LargerPeakMeanAtFloor) => PopsaOutcome

\* analyze_v2 has returned the result of a 4-peak track of at least 16 beats.
C9_Witness ==
  /\ pc = "done" /\ v2
  /\ MidsExceedRatio /\ LargerPeakMeanAtFloor
  /\ result.track_type = "popsa"
  /\ Len(result.layout) >= 4

\* analyze_v2 has returned.
V2Returned == v2 /\ pc = "done"

\* C10 (as stated): the analysis fails only when there are no beats; every
\* series with at least one beat gets a successful result with a phase and a
\* layout.
C10_Original ==
  V2Returned =>
    IF Len(beats) = 0 THEN result.status = "error"
    ELSE result.status = "ok" /\ result.layout # <<>>

\* C10 (amended): analyze_v2 fails exactly for the series of fewer than 16
\* beats, the empty one included, and returns no layout for them; for every
\* series of at least 16 beats it raises nothing and returns a successful
\* result with a track type, a song start within the first 8 beats and a
\* layout that is not empty.
C10_FailsBelowSixteenBeats ==
  v2 =>
    /\ pc # "raised"
    /\ pc = "done" =>
         IF Len(beats) < MIN_BEATS
         THEN result.status = "error" /\ result.layout = <<>>
         ELSE /\ result.status = "ok"
              /\ result.track_type \in {"bachata", "popsa"}
              /\ result.song_start_beat \in 1..8
              /\ result.layout # <<>>
              /\ result.layout[1].from_beat = result.song_start_beat

\* analyze_v2 has refused a series that has beats.
C10_Witness ==
  /\ V2Returned
  /\ Len(beats) >= 1
  /\ result.status = "error"

\* The last segment of the layout.
LastSegment == layout[Len(layout)]

\* C11 (as stated): the last segment generate_layout emits ends at the last
\* beat of the series, to_beat = number of beats - 1.
C11_Original == LayoutGenerated => LastSegment.to_beat = Len(beats) - 1

\* C11 (amended): the last segment ends at the last beat of the last full
\* quarter counted from start_idx, start_idx + 4 * ((n - start_idx) // 4) - 1;
\* the 0..3 beats after it are in no segment, and the segment ends at beat
\* n - 1 exactly when n - start_idx is a multiple of 4.
C11_LastSegmentEndsAtLastFullQuarter ==
  LayoutGenerated =>
    /\ layout # <<>>
    /\ LastSegment.to_beat = start_idx + 4 * ((Len(beats) - start_idx) \div 4) - 1
    /\ LastSegment.to_beat <= Len(beats) - 1
    /\ (LastSegment.to_beat = Len(beats) - 1) <=> ((Len(beats) - start_idx) % 4 = 0)

\* A layout whose last segment stops before the last beat of the series.
C11_Witness ==
  /\ LayoutGenerated /\ layout # <<>>
  /\ LastSegment.to_beat < Len(beats) - 1

\* The provisional start find_song_start_perc returned for the series.
ProvisionalStart == find_song_start_perc(beats, strong_rows_tact_list)

\* The start has been snapped back (lines 1062-1064 have run).
Shifted == Classified /\ pc \notin {"start", "shift", "raised"}

\* C12: the final start index is congruent to the provisional start modulo 8
\* and is the earliest beat with that residue: it lies in 0..7.
C12_StartSnappedToFirstCycle ==
  Shifted =>
    /\ start_idx \in 0..7
    /\ start_idx % 8 = ProvisionalStart % 8
    /\ start_idx <= ProvisionalStart

\* A provisional start two cycles or more into the track has been snapped
\* back into the first cycle.
C12_Witness ==
  /\ Shifted
  /\ ProvisionalStart >= 16
  /\ start_idx < 8

SummedActions == {"ignored_small_diff", "bridge_confirmed", "ignored_no_change"}

\* The energy of the beats of quarters q0 .. q0 + count - 1, as far as the
\* quarter table reaches.
LookaheadEnergy(q0, count) ==
  SumRange(Energies(beats),
           start_idx + 4 * Min2(q0, Len(quarters)),
           start_idx + 4 * Min2(q0 + count, Len(quarters)))

\* The energy of the count beats that start at beat b, as far as the series
\* reaches.
WindowEnergy(b, count) ==
  SumRange(Energies(beats), Min2(b, Len(beats)), Min2(b + count, Len(beats)))

\* The first quarter of the aligned square after the one that holds quarter qi.
AlignedSquareAfter(qi) == 8 * ((qi \div 8) + 1)

SwapsBefore(k) ==
  Cardinality({j \in 1..(k - 1) : decisions[j].action = "bridge_confirmed"})

\* The energy of the quarters q0 .. q0 + count - 1 (as far as the table
\* reaches) whose position in the original grid is pos when physical is TRUE,
\* and is the other one when physical is FALSE.
GridEnergy(q0, count, pos, physical) ==
  LET iq == InitialQuarters
  IN  SumRange([q \in 1..Len(iq) |->
                  IF (iq[q].position = pos) = physical THEN iq[q].energy_sum ELSE 0],
               Min2(q0, Len(iq)), Min2(q0 + count, Len(iq)))

\* The decision's sums are those of count quarters of the next aligned
\* square on, read in the original grid (physical) or in the swapped one.
SumsReadAs(d, count, physical) ==
  /\ d.row1_sum = GridEnergy(AlignedSquareAfter(d.quarter_index), count, "1-4", physical)
  /\ d.row5_sum = GridEnergy(AlignedSquareAfter(d.quarter_index), count, "5-8", physical)

\* C15 (as stated): in the lookahead sums a quarter counts as count 1-4 or
\* count 5-8 by its position in the original grid, however many bridges have
\* been confirmed.
C15_Original ==
  \A k \in 1..Len(decisions) :
    decisions[k].action \in SummedActions =>
      SumsReadAs(decisions[k], 8, TRUE) \/ SumsReadAs(decisions[k], 12, TRUE)

\* C15 (amended): in the lookahead sums a quarter counts by its position in
\* the current layout: its position in the original grid after an even
\* number of confirmed bridges, the opposite one after an odd number.
C15_SumsFollowCurrentLayout ==
  \A k \in 1..Len(decisions) :
    decisions[k].action \in SummedActions =>
      \/ SumsReadAs(decisions[k], 8, SwapsBefore(k) % 2 = 0)
      \/ SumsReadAs(decisions[k], 12, SwapsBefore(k) % 2 = 0)

\* After one confirmed bridge a later indicator was decided on unequal sums.
C15_Witness ==
  \E k \in 1..Len(decisions) :
    /\ decisions[k].action \in SummedActions
    /\ SwapsBefore(k) = 1
    /\ decisions[k].row1_sum # decisions[k].row5_sum

\* compute_indicators_from_tacts has run on the tact table and the start.
IndicatorsComputed ==
  pc = "bridges" \/ (pc = "done" /\ ~v2 /\ peaks.peak_count = 2)

\* The beats of the strong-row positions of the song, in track order, and the
\* positions (0-based) that have a full window on each side.
SongPositions ==
  LET InSong(t) == t.beat >= start_idx
      ts == SelectSeq(strong_rows_tact_list, InSong)
  IN  [i \in 1..Len(ts) |-> ts[i].beat]

FullWindow(sp) ==
  {i \in 0..(Len(sp) - 1) :
     i >= indicator_window /\ i + indicator_window <= Len(sp) - 1}

PositionEnergy(sp, i) == beats[sp[i + 1] + 1].energy

\* The energy of position i is the minimum of its window.
IsWindowMinimum(sp, i) ==
  \A j \in (i - indicator_window)..(i + indicator_window) :
    PositionEnergy(sp, j) >= PositionEnergy(sp, i)

IsReported(sp, i) ==
  \E k \in 1..Len(indicators) :
    indicators[k].tact_index = i /\ indicators[k].beat = sp[i + 1]

\* C16 (as stated): a position with a full window is an indicator if and only
\* if its energy equals the minimum of the window, energy 0 included.
C16_Original ==
  IndicatorsComputed =>
    LET sp == SongPositions
    IN  \A i \in FullWindow(sp) : IsReported(sp, i) <=> IsWindowMinimum(sp, i)

\* C16 (amended): a position with a full window is an indicator if and only
\* if its energy is positive and equals the minimum of the window; a position
\* of energy 0 is never an indicator; nothing else is reported.
C16_IndicatorIffPositiveWindowMinimum ==
  IndicatorsComputed =>
    LET sp == SongPositions
    IN  /\ \A i \in FullWindow(sp) :
             IsReported(sp, i) <=>
               (PositionEnergy(sp, i) > 0 /\ IsWindowMinimum(sp, i))
        /\ \A k \in 1..Len(indicators) :
             indicators[k].tact_index \in FullWindow(sp)

\* A silent position that is the minimum of its full window, in a run that
\* reported indicators elsewhere.
C16_Witness ==
  /\ IndicatorsComputed /\ indicators # <<>>
  /\ LET sp == SongPositions
     IN  \E i \in FullWindow(sp) :
           /\ PositionEnergy(sp, i) = 0
           /\ IsWindowMinimum(sp, i)
           /\ ~IsReported(sp, i)

\* The positions of the window of an indicator, the indicator excepted.
Neighbourhood(ind) ==
  ((ind.tact_index - indicator_window)..(ind.tact_index + indicator_window))
    \ {ind.tact_index}

\* Two reported indicators less than w+1 positions apart.
CloseIndicators ==
  {pair \in (1..Len(indicators)) \X (1..Len(indicators)) :
     /\ pair[1] < pair[2]
     /\ indicators[pair[2]].tact_index - indicators[pair[1]].tact_index
          < indicator_window + 1}

\* C17 (as stated): an indicator's energy is strictly lower than that of every
\* other position of its neighbourhood, and no two indicators are less than
\* w+1 positions apart.
C17_Original ==
  IndicatorsComputed =>
    LET sp == SongPositions
    IN  /\ \A k \in 1..Len(indicators) :
             \A j \in Neighbourhood(indicators[k]) :
               PositionEnergy(sp, j) > PositionEnergy(sp, indicators[k].tact_index)
        /\ CloseIndicators = {}

\* C17 (amended): an indicator's energy is not higher than that of any other
\* position of its neighbourhood (a tie with a neighbour is allowed), and two
\* indicators less than w+1 positions apart have the same energy.
C17_IndicatorNotAboveNeighbours ==
  IndicatorsComputed =>
    LET sp == SongPositions
    IN  /\ \A k \in 1..Len(indicators) :
             \A j \in Neighbourhood(indicators[k]) :
               PositionEnergy(sp, j) >= PositionEnergy(sp, indicators[k].tact_index)
        /\ \A pair \in CloseIndicators :
             PositionEnergy(sp, indicators[pair[1]].tact_index)
               = PositionEnergy(sp, indicators[pair[2]].tact_index)

\* Two adjacent positions of equal energy, both reported as indicators.
C17_Witness ==
  /\ IndicatorsComputed
  /\ \E pair \in CloseIndicators :
       indicators[pair[2]].tact_index = indicators[pair[1]].tact_index + 1

\* The energy of the beats of part p on counts 1-4 (primary) or on counts 5-8
\* of the 8-beat cycles that start at the part's first beat.
CountEnergy(p, primary) ==
  SumRange([i \in 1..PartLen(p) |->
              IF (((i - 1 + row1_offset) % 8) < 4) = primary
              THEN beats[p.first + i].energy ELSE 0],
           0, PartLen(p))

\* C18 (as stated): a partition is green exactly when its primary sum is
\* greater than or equal to its secondary sum; equal sums are green.
C18_Original ==
  SquareAnalyzed =>
    \A i \in 1..Len(square_result.parts) :
      LET p == square_result.parts[i]
      IN  p.status = "green" <=> CountEnergy(p, TRUE) >= CountEnergy(p, FALSE)

\* C18 (amended): a partition is green exactly when its primary sum is
\* strictly greater than its secondary sum, and red otherwise; equal sums
\* are red.
C18_GreenIffPrimaryStrictlyGreater ==
  SquareAnalyzed =>
    \A i \in 1..Len(square_result.parts) :
      LET p == square_result.parts[i]
      IN  /\ p.status \in {"green", "red"}
          /\ p.status = "green" <=> CountEnergy(p, TRUE) > CountEnergy(p, FALSE)

\* One analysis with a green part, a part of equal sums and a part whose
\* secondary sum is the greater.
C18_Witness ==
  /\ SquareAnalyzed
  /\ \E i, j, k \in 1..Len(square_result.parts) :
       /\ square_result.parts[i].status = "green"
       /\ CountEnergy(square_result.parts[j], TRUE)
            = CountEnergy(square_result.parts[j], FALSE)
       /\ CountEnergy(square_result.parts[k], TRUE)
            < CountEnergy(square_result.parts[k], FALSE)

\* determine_rows has returned.
RowsDetermined == pc \in {"phase1_done", "phase1_scan"}

\* The energy of the first `count` tacts of the row that starts at beat
\* `first`, one tact every 8 beats: a tact counts with its 4 beats, a tact cut
\* by the end of the series with its first beat, a tact past the end with 0.
RowSum(first, count) ==
  SumRange([k \in 1..count |->
              LET s == first + 8 * (k - 1)
              IN  IF s + 3 < Len(beats)
                  THEN beats[s + 1].energy + beats[s + 2].energy
                       + beats[s + 3].energy + beats[s + 4].energy
                  ELSE IF s < Len(beats) THEN beats[s + 1].energy ELSE 0],
           0, count)

Count1Sum(count) == RowSum(start_idx, count)
Count5Sum(count) == RowSum(start_idx + 4, count)

\* C19 (as stated): determine_rows returns offset 4, swapped, exactly when
\* the count-5 sum is >= the count-1 sum over the first N tacts and count 5
\* dominates over the first 4 tacts; otherwise offset 0, not swapped.
C19_Original ==
  RowsDetermined =>
    LET flip == /\ Count5Sum(initial_quarters_count) >= Count1Sum(initial_quarters_count)
                /\ Count5Sum(4) > Count1Sum(4)
    IN  /\ row_swapped = flip
        /\ row1_offset = IF flip THEN 4 ELSE 0

\* C19 (amended): determine_rows returns offset 4, swapped, exactly when the
\* count-5 sum is strictly greater than the count-1 sum over the first N
\* tacts and also strictly greater over the first 4 tacts of each; otherwise,
\* a tie in either comparison included, offset 0, not swapped.
C19_FlipIffCount5StrictlyGreaterTwice ==
  RowsDetermined =>
    LET flip == /\ Count5Sum(initial_quarters_count) > Count1Sum(initial_quarters_count)
                /\ Count5Sum(4) > Count1Sum(4)
    IN  /\ row_swapped = flip
        /\ row1_offset = IF flip THEN 4 ELSE 0

\* The rows tie over the first N tacts while count 5 is the greater over the
\* first 4, and determine_rows has not flipped.
C19_Witness ==
  /\ RowsDetermined
  /\ Count5Sum(initial_quarters_count) = Count1Sum(initial_quarters_count)
  /\ Count5Sum(4) > Count1Sum(4)
  /\ row1_offset = 0 /\ ~row_swapped

\* find_song_start has returned.
SongStartFound == pc \in {"pass3", "phase1_done", "phase1_scan"}

\* The band energy of the 4 beats of the tact that starts at beat i.
BandTactSum(i) ==
  beats[i + 1].energy + beats[i + 2].energy + beats[i + 3].energy
    + beats[i + 4].energy

\* The strong-row beats i <= len - 4 whose band-energy tact sum exceeds
\* 4 * (mean band energy) * (1 - reduction).
LoudTactStarts ==
  LET total == SumRange(Energies(beats), 0, Len(beats))
  IN  {i \in 0..(Len(beats) - 4) :
         /\ (i % 8) \in {peaks.peak1, peaks.peak2}
         /\ BandTactSum(i) * Len(beats) * 100
              > 4 * total * (100 - energy_threshold_reduction_pct)}

\* C20 (as stated): find_song_start returns the lowest strong-row beat whose
\* 4-beat sum of band energy exceeds the threshold, and 0 when there is none.
C20_Original ==
  SongStartFound =>
    start_idx = IF LoudTactStarts = {} THEN 0
                ELSE CHOOSE i \in LoudTactStarts : \A j \in LoudTactStarts : i <= j

\* A series without perceptual energy whose first loud tact of band energy
\* starts after beat 0, for which find_song_start has returned 0.
C20_Witness ==
  /\ SongStartFound
  /\ \A i \in 1..Len(beats) : beats[i].perceptual_energy = 0
  /\ LoudTactStarts # {} /\ 0 \notin LoudTactStarts
  /\ start_idx = 0

\* The residues of the highest and of the second-highest mean confidence,
\* sorted_positions[0] and sorted_positions[1].
HighestResidue == TopOf(avg_scores(beats), 0..7)
SecondResidue == TopOf(avg_scores(beats), (0..7) \ {HighestResidue})
ExpectedSecond == Mod8(HighestResidue + 4)

\* The distance of two residues on the circle of 8.
CircleDistance(p, q) == Min2(Mod8(p - q), Mod8(q - p))

\* C21 (as stated): the second peak is the second-highest residue when that
\* is (peak1+4) mod 8 or one of its two neighbours (peak1+3) and (peak1+5),
\* and the exact residue (peak1+4) mod 8 otherwise; the peaks are returned in
\* increasing order.
C21_Original ==
  Classified =>
    LET chosen == IF CircleDistance(SecondResidue, ExpectedSecond) <= 1
                  THEN SecondResidue ELSE ExpectedSecond
    IN  /\ {peaks.peak1, peaks.peak2} = {HighestResidue, chosen}
        /\ peaks.peak1 < peaks.peak2

\* The second-highest residue is (peak1+3) mod 8, and classify_peaks has
\* returned another residue as the second peak.
C21_Witness ==
  /\ Classified
  /\ SecondResidue = Mod8(HighestResidue + 3)
  /\ SecondResidue \notin {peaks.peak1, peaks.peak2}

\* The indicator the next iteration of analyze_bridges takes, and whether its
\* logical position is 5-8: physical 5-8 after an even number of confirmed
\* bridges, physical 1-4 after an odd number.
ScanPending == pc = "bridges" /\ ind_next < Len(indicators)

LogicalBreak ==
  LET ind == indicators[ind_next + 1]
  IN  (ind.position = "5-8") = (Len(bridges) % 2 = 0)

\* The physical position of the indicator that became the k-th bridge.
BridgePhysicalPosition(k) ==
  LET ind == CHOOSE x \in {indicators[j] : j \in 1..Len(indicators)} :
               x.beat = bridges[k].beat
  IN  ind.position

\* C22: an iteration of analyze_bridges on an indicator of logical position
\* 5-8 records ignored_break and leaves the bridge list, the last-bridge
\* quarter and the quarter table as they are; and at all times the k-th
\* confirmed bridge has physical position 1-4 for odd k, 5-8 for even k.
C22_BreaksAreNeverBridges ==
  /\ [][(ScanPending /\ LogicalBreak /\ ind_next' = ind_next + 1) =>
          /\ decisions'[Len(decisions')].action = "ignored_break"
          /\ decisions'[Len(decisions')].beat = indicators[ind_next + 1].beat
          /\ UNCHANGED <<bridges, last_bridge_quarter, quarters>>]_vars
  /\ [](\A k \in 1..Len(bridges) :
          BridgePhysicalPosition(k) = IF k % 2 = 1 THEN "1-4" ELSE "5-8")

\* A scan that confirmed two bridges, the second on an indicator of physical
\* position 5-8, and that classified an indicator of physical position 1-4
\* as a break.
C22_Witness ==
  /\ pc = "bridges"
  /\ Len(bridges) >= 2 /\ BridgePhysicalPosition(2) = "5-8"
  /\ \E k \in 1..Len(decisions) :
       /\ decisions[k].action = "ignored_break"
       /\ indicators[k].position = "1-4"

\* |primary - secondary| / max(primary, secondary) is at least the dominance
\* threshold.
Dominant(primary, secondary) ==
  Abs(primary - secondary) * 100
    >= bridge_dominance_threshold_pct * Max2(primary, secondary)

\* C23: every confirmed bridge was confirmed on lookahead sums, those of the
\* square after it or those of the square and the small square after it,
\* whose secondary (row 5) sum is strictly greater than the primary (row 1)
\* sum and whose difference is at least the dominance threshold of the
\* greater sum.
C23_BridgeSumsDominant ==
  \A k \in 1..Len(bridges) :
    LET b == bridges[k]
        from == AlignedSquareAfter(b.quarter_index)
    IN  /\ b.row5_sum > b.row1_sum
        /\ Dominant(b.row1_sum, b.row5_sum)
        /\ b.row1_sum + b.row5_sum
             \in {LookaheadEnergy(from, 8), LookaheadEnergy(from, 12)}

\* A bridge confirmed on the extended sums (the square and the small square
\* after it), which differ from the sums of the square alone.
C23_Witness ==
  \E k \in 1..Len(bridges) :
    LET from == AlignedSquareAfter(bridges[k].quarter_index)
    IN  /\ bridges[k].row1_sum + bridges[k].row5_sum = LookaheadEnergy(from, 12)
        /\ LookaheadEnergy(from, 12) # LookaheadEnergy(from, 8)
        /\ bridges[k].row5_sum > bridges[k].row1_sum

\* The aligned small square (4 quarters) of a quarter index.
SmallSquareOfQuarter(qi) == qi \div QUARTERS_PER_SMALL_SQUARE

\* C24: no two confirmed bridges have quarter indices in the same aligned
\* small square (quarter_index // 4 differs for every pair), although the
\* scan keeps the quarter of the most recently confirmed bridge only.
C24_BridgesInDistinctSmallSquares ==
  /\ \A i, j \in 1..Len(bridges) :
       i < j => SmallSquareOfQuarter(bridges[i].quarter_index)
                  # SmallSquareOfQuarter(bridges[j].quarter_index)
  /\ last_bridge_quarter =
       IF bridges = <<>> THEN -999 ELSE bridges[Len(bridges)].quarter_index

\* Three bridges confirmed in one scan: the third was compared with the
\* second only.
C24_Witness ==
  /\ pc = "bridges"
  /\ Len(bridges) >= 3
  /\ last_bridge_quarter = bridges[Len(bridges)].quarter_index

\* The stages were called one by one on a 2-peak series and generate_layout
\* has returned.
ScanFinished == pc = "done" /\ ~v2 /\ peaks.peak_count = 2

\* Fewer than 2w+1 strong-row tacts lie at or after start_idx.
FewSongTacts == Len(SongPositions) < 2 * indicator_window + 1

\* C25 (as stated): with fewer than 2w+1 strong-row tacts at or after the
\* start there are no indicators, no table rows and no bridge, and the layout
\* is a single segment.
C25_Original ==
  (ScanFinished /\ FewSongTacts) =>
    /\ indicators = <<>>
    /\ indicator_tact_table(strong_rows_tact_list, start_idx, beats,
                            indicator_window) = <<>>
    /\ bridges = <<>>
    /\ Len(layout) = 1

\* C25 (amended): with fewer than 2w+1 strong-row tacts at or after the start
\* there are no indicators, no table rows, no decision and no bridge; the
\* layout is a single segment from the start to the end of the last full
\* quarter when at least 4 beats lie at or after the start, and it is empty
\* when fewer do.
C25_FewTactsNoBridge ==
  (ScanFinished /\ FewSongTacts) =>
    /\ indicators = <<>>
    /\ indicator_tact_table(strong_rows_tact_list, start_idx, beats,
                            indicator_window) = <<>>
    /\ decisions = <<>> /\ bridges = <<>>
    /\ IF Len(beats) - start_idx >= 4
       THEN /\ Len(layout) = 1
            /\ layout[1].from_beat = start_idx
            /\ layout[1].row1_start = 1
       ELSE layout = <<>>

\* A series with exactly 2w strong-row tacts at or after the start, one
\* short of a full window: no indicator, a single segment.
C25_Witness ==
  /\ ScanFinished
  /\ Len(SongPositions) = 2 * indicator_window
  /\ indicators = <<>> /\ Len(layout) = 1

\* find_song_start_perc has been called and has returned or raised.
StartPercCalled == Classified /\ pc \notin {"entry", "classify", "start"}

\* C26 (as stated): find_song_start_perc never raises, and returns start 0
\* for a series of fewer than 4 beats.
C26_Original ==
  /\ pc # "raised"
  /\ (StartPercCalled /\ Len(beats) < 4) => start_idx = 0

\* A series of 4 to 7 beats with perceptual energy whose tact table has one
\* row: find_song_start_perc has raised.
C26_Witness ==
  /\ pc = "raised"
  /\ Len(beats) \in 4..7
  /\ Len(strong_rows_tact_list) = 1
  /\ has_perc(beats)

\* The energy of the beats of part p that are primary (counts 1-4) or
\* secondary (counts 5-8) in the whole range, whose cycles start at start_idx.
RangeEnergy(p, primary) ==
  SumRange([i \in 1..PartLen(p) |->
              IF (((p.first + i - 1 - start_idx + row1_offset) % 8) < 4) = primary
              THEN beats[p.first + i].energy ELSE 0],
           0, PartLen(p))

\* C27: every sub-range analyze_square compares starts a multiple of 8 beats
\* after start_idx and has a length that is a positive multiple of 8, and its
\* primary and secondary sums are those of the beats that are primary and
\* secondary in the whole range.
C27_PartsAlignedToCycles ==
  SquareAnalyzed =>
    \A i \in 1..Len(square_result.parts) :
      LET p == square_result.parts[i]
      IN  /\ p.first >= start_idx
          /\ (p.first - start_idx) % 8 = 0
          /\ PartLen(p) >= 8
          /\ PartLen(p) % 8 = 0
          /\ p.row1_energy = RangeEnergy(p, TRUE)
          /\ p.row5_energy = RangeEnergy(p, FALSE)

\* An analysis from a start after beat 0 that has 2-way, 3-way and 5-way
\* partitions, hence sub-ranges that start after the start of the range.
C27_Witness ==
  /\ SquareAnalyzed
  /\ start_idx > 0
  /\ WayParts(2) # <<>> /\ WayParts(3) # <<>> /\ WayParts(5) # <<>>
  /\ WayParts(3)[2].first > start_idx

\* The quarter table and the indicators were computed from one start and one
\* row1_offset.
QuartersAndIndicatorsComputed == pc = "phase1_scan"

\* The indicator's label is the position of the quarter at its quarter_index.
LabelMatchesQuarter(ind) ==
  /\ ind.quarter_index < Len(quarters)
  /\ quarters[ind.quarter_index + 1].position = ind.position

\* C28 (as stated): for row1_offset 0 and for row1_offset 4, the position
\* label of every indicator equals the position that compute_quarters gives
\* the quarter at the indicator's quarter_index.
C28_Original ==
  QuartersAndIndicatorsComputed =>
    \A k \in 1..Len(indicators) : LabelMatchesQuarter(indicators[k])

\* With row1_offset 4 an indicator carries the label opposite to the position
\* of its quarter.
C28_Witness ==
  /\ QuartersAndIndicatorsComputed
  /\ row1_offset = 4
  /\ indicators # <<>>
  /\ \A k \in 1..Len(indicators) :
       /\ indicators[k].quarter_index < Len(quarters)
       /\ quarters[indicators[k].quarter_index + 1].position
            = Flip(indicators[k].position)

\* C29: the layout generate_layout emits is a contiguous chain: the first
\* segment starts at start_idx, every segment has from_beat <= to_beat, each
\* following segment starts at the beat after the previous segment's to_beat,
\* and the rows 1 and 5 alternate from segment to segment.
C29_LayoutIsContiguousChain ==
  LayoutGenerated =>
    /\ layout # <<>>
    /\ layout[1].from_beat = start_idx
    /\ \A j \in 1..Len(layout) :
         /\ layout[j].from_beat <= layout[j].to_beat
         /\ layout[j].row1_start \in {1, 5}
    /\ \A j \in 1..(Len(layout) - 1) :
         /\ layout[j + 1].from_beat = layout[j].to_beat + 1
         /\ layout[j + 1].row1_start # layout[j].row1_start

\* A layout of four segments or more.
C29_Witness ==
  /\ LayoutGenerated
  /\ Len(layout) >= 4
  /\ layout[Len(layout)].to_beat > layout[Len(layout)].from_beat
\* ---------------------------------------------------------------- C30
GridReturned == grid_pc = "returned"

\* C30: every beat generate_beats_from_downbeats emits, the appended ones
\* included, carries a number of 1..8: 1 when the beat was matched to a
\* downbeat, otherwise the number of the beat before it plus 1, 8 being
\* followed by 1 (the first beat, having no predecessor, starts at 1).
C30_NumbersCountOneToEight ==
  \A i \in 1..Len(grid) :
    /\ grid[i].number \in 1..8
    /\ grid[i].is_downbeat => grid[i].number = 1
    /\ (~grid[i].is_downbeat /\ i = 1) => grid[i].number = 1
    /\ (~grid[i].is_downbeat /\ i > 1) =>
         grid[i].number = IF grid[i - 1].number = 8 THEN 1
                          ELSE grid[i - 1].number + 1

\* The function returned a list in which a detected beat after the first was
\* matched to a downbeat and reset a running count, and an appended beat
\* numbered 1 follows a beat numbered 8.
C30_Witness ==
  /\ GridReturned
  /\ \E i \in 2..Len(grid) :
       grid[i].is_downbeat /\ ~grid[i].padded /\ grid[i - 1].number # 8
  /\ \E i \in 2..Len(grid) :
       grid[i].padded /\ grid[i].number = 1 /\ grid[i - 1].number = 8

====
